---------------------------- MODULE Spec2Model ----------------------------
(***************************************************************************)
(* Model of the content fetcher bot: link parsing, the backward-paginated  *)
(* range fetch (ContentFetcher.fetch_messages_range), the chunked resend   *)
(* (ContentFetcher.send_message_batch) and the /batch command pipeline     *)
(* (ContentFetcher.process_command called from bot.handle_message).        *)
(*                                                                         *)
(* Every coroutine is cut at its suspension points: one action is one call *)
(* to the messaging client together with the code that runs after it up to *)
(* the next call.  The outcome of a client call is chosen by the           *)
(* environment: a normal result, a FloodWait, or any other exception.      *)
(***************************************************************************)
EXTENDS Integers, Sequences, FiniteSets, TLC

(***************************************************************************)
(* Bounds of the model.                                                    *)
(***************************************************************************)
\* message ids of the source chat range over 1..MaxId in the runs of
\* send_message_batch and of the commands
MaxId == 3
\* and over 1..MaxFetchId in the runs of fetch_messages_range alone
MaxFetchId == 4
\* page size passed to get_chat_history (the code passes limit=100; scaled
\* down so that a window spans several pages)
PageLimit == 2
\* batch_size arguments range over 1..MaxChunk (process_command passes 10;
\* scaled down so that a batch spans several chunks)
MaxChunk == 2
\* at most MaxFaults client calls of one run raise (FloodWait or other)
MaxFaults == 2

Procs == {1, 2}

(***************************************************************************)
(* Links.  A link is the sequence of its "/"-separated segments, e.g.      *)
(* https://t.me/c/77/3 is <<"https:", "", "t.me", "c", "77", "3">>.        *)
(***************************************************************************)
DigitStr == <<"0", "1", "2", "3", "4", "5", "6", "7", "8", "9">>

\* \d+ : the segments made of digits
IsDigits(s) == s \in {DigitStr[n] : n \in 1..10} \cup {"77", "88"}

\* \w+ : the segments made of word characters
IsWord(s) == IsDigits(s) \/ s \in {"c", "news", "t"}

\* int(match.group(2))
IntOf(s) == CHOOSE n \in 0..9 : DigitStr[n + 1] = s

ChannelLink(m)      == <<"t.me", "c", "77", DigitStr[m + 1]>>
HttpsChannelLink(m) == <<"https:", "", "t.me", "c", "77", DigitStr[m + 1]>>
UserLink(m)         == <<"t.me", "news", DigitStr[m + 1]>>
HttpsUserLink(m)    == <<"https:", "", "t.me", "news", DigitStr[m + 1]>>
OtherChannelLink(m) == <<"t.me", "c", "88", DigitStr[m + 1]>>
BadLink             == <<"https:", "", "example.com", "news", "1">>

Links ==
    UNION {{ChannelLink(m), HttpsChannelLink(m), UserLink(m),
            HttpsUserLink(m), OtherChannelLink(m)} : m \in 0..MaxFetchId}
    \cup {BadLink}

\* the patterns list of parse_telegram_link, in its order; a pattern is the
\* sequence of its segments, "\d+" and "\w+" standing for the groups
patterns ==
    << <<"t.me", "c", "\\d+", "\\d+">>,
       <<"t.me", "\\w+", "\\d+">>,
       <<"https:", "", "t.me", "\\w+", "\\d+">>,
       <<"https:", "", "t.me", "c", "\\d+", "\\d+">> >>

SegMatches(pat, seg) ==
    IF pat = "\\d+" THEN IsDigits(seg)
    ELSE IF pat = "\\w+" THEN IsWord(seg)
    ELSE pat = seg

\* re.search: the pattern matches at offset k of the link
MatchesAt(pattern, link, k) ==
    /\ k + Len(pattern) <= Len(link)
    /\ \A n \in 1..Len(pattern) : SegMatches(pattern[n], link[k + n])

\* the offsets at which re.search can match
MatchOffsets(pattern, link) ==
    {k \in 0..Len(link) : MatchesAt(pattern, link, k)}

\* the leftmost match, as re.search returns it
Leftmost(S) == CHOOSE k \in S : \A j \in S : k <= j

\* 'c/' in pattern
HasChannelMark(pattern) ==
    \E n \in 1..(Len(pattern) - 1) : pattern[n] = "c"

\* the groups of the match: the segments under "\d+" and "\w+"
Groups(pattern, link, k) ==
    LET idx == {n \in 1..Len(pattern) : pattern[n] \in {"\\d+", "\\w+"}}
        lo  == CHOOSE n \in idx : \A j \in idx : n <= j
        hi  == CHOOSE n \in idx : \A j \in idx : n >= j
    IN  <<link[k + lo], link[k + hi]>>

NoneChat == "None"
NoneMsg  == -1
ParseNone == [chat |-> NoneChat, msg |-> NoneMsg]

RECURSIVE ParseFrom(_, _)
ParseFrom(link, n) ==
    IF n > Len(patterns) THEN ParseNone
    ELSE IF MatchOffsets(patterns[n], link) = {} THEN ParseFrom(link, n + 1)
    ELSE LET g == Groups(patterns[n], link,
                         Leftmost(MatchOffsets(patterns[n], link)))
         IN  IF HasChannelMark(patterns[n])
             THEN [chat |-> "-100" \o g[1], msg |-> IntOf(g[2])]
             ELSE [chat |-> g[1], msg |-> IntOf(g[2])]

parse_telegram_link(link) == ParseFrom(link, 1)


(***************************************************************************)
(* State.                                                                  *)
(***************************************************************************)
VARIABLES
    history,            \* ids of the messages of the chat the links name
    texts,              \* ids of the messages that have a text or a caption
    batch_size,         \* the batch_size argument of send_message_batch
    faults,             \* client calls that raised so far
    delivered,          \* the message copies and text substitutes the
                        \* destination chat received, in order
    pc,                 \* where each coroutine is suspended
    caller,             \* "direct" or "command": who awaits the operation
    command_text,       \* the command handle_message received
    start_link, end_link,
    all_messages, current_offset_id,
    messages, i, k, sent_count,
    fetched,            \* the list fetch_messages_range returned
    raised,             \* the exception that escaped the operation
    success,            \* what send_message_batch returned
    response,           \* what process_command returned
    ev                  \* the client calls and sleeps of each coroutine

vars == <<history, texts, batch_size, faults, delivered, pc, caller,
          command_text, start_link, end_link, all_messages,
          current_offset_id, messages, i, k,
          sent_count, fetched, raised, success, response, ev>>

fetchVars == <<all_messages, current_offset_id, fetched>>
sendVars  == <<messages, i, k, sent_count, success, delivered>>
envVars   == <<history, texts, batch_size, caller, command_text>>
inputVars == <<envVars, start_link, end_link>>

Event(op, arg, res) == [op |-> op, arg |-> arg, res |-> res]

Log(p, es) == ev' = [ev EXCEPT ![p] = ev[p] \o es]

Goto(p, label) == pc' = [pc EXCEPT ![p] = label]

\* the environment may make one more client call raise
MayFail == faults < MaxFaults

(***************************************************************************)
(* The messaging client's history: up to `limit` messages older than       *)
(* offset_id, newest first.                                                *)
(***************************************************************************)
RECURSIVE Descending(_)
Descending(S) ==
    IF S = {} THEN <<>>
    ELSE LET m == CHOOSE x \in S : \A y \in S : y <= x
         IN  <<m>> \o Descending(S \ {m})

Take(seq, n) == SubSeq(seq, 1, IF Len(seq) < n THEN Len(seq) ELSE n)

get_chat_history(h, limit, offset_id) ==
    Take(Descending({m \in h : m < offset_id}), limit)

(***************************************************************************)
(* fetch_messages_range                                                    *)
(***************************************************************************)
\* truth value of a parsed chat / message id (None, 0 and "" are false)
TruthyChat(c) == c # NoneChat /\ c # ""
TruthyMsg(m)  == m # NoneMsg /\ m # 0

\* all([start_chat, start_msg_id, end_chat, end_msg_id])
AllParsed(s, e) ==
    TruthyChat(s.chat) /\ TruthyMsg(s.msg) /\ TruthyChat(e.chat) /\ TruthyMsg(e.msg)

MinIdOfStart(a, b) == a
min_id(a, b) == IF a <= b THEN a ELSE b
max_id(a, b) == IF a >= b THEN a ELSE b

\* start_chat != end_chat is what raises; the test passes when they agree
AnyChat(s, e) == TRUE
SameChat(s, e) == s.chat = e.chat

\* the window of coroutine p
Lo(p) == min_id(parse_telegram_link(start_link[p]).msg,
                parse_telegram_link(end_link[p]).msg)
Hi(p) == max_id(parse_telegram_link(start_link[p]).msg,
                parse_telegram_link(end_link[p]).msg)

\* the page with no test against the window
WholePage(page, lo, hi) == page

\* the for loop over a page: keep the ids in the window, stop below it
RECURSIVE filtered_messages(_, _, _)
filtered_messages(page, lo, hi) ==
    IF page = <<>> THEN <<>>
    ELSE IF lo <= Head(page) /\ Head(page) <= hi
         THEN <<Head(page)>> \o filtered_messages(Tail(page), lo, hi)
         ELSE IF Head(page) < lo THEN <<>>
              ELSE filtered_messages(Tail(page), lo, hi)

NeverReachedMin(page, lo) == FALSE

\* any(msg.id <= min_id for msg in messages)
ReachedMin(page, lo) == \E n \in 1..Len(page) : page[n] <= lo

\* all_messages.sort(key=lambda x: x.id)
RECURSIVE Insert(_, _)
Insert(x, seq) ==
    IF seq = <<>> THEN <<x>>
    ELSE IF x < Head(seq) THEN <<x>> \o seq
         ELSE <<Head(seq)>> \o Insert(x, Tail(seq))

Unsorted(seq) == seq

RECURSIVE SortById(_)
SortById(seq) ==
    IF seq = <<>> THEN <<>> ELSE Insert(Head(seq), SortById(Tail(seq)))

\* all_messages = [] at the start of every call, the recursive one included
CarriedMessages(old) == old
FreshMessages(old) == <<>>

\* current_offset_id = messages[-1].id
OffsetKept(page, offset) == offset
NextOffset(page, offset) == page[Len(page)]

\* one turn of the while loop on the page the client returned
PageStep(page, lo, hi, acc) ==
    IF page = <<>>
    THEN [all |-> acc, stop |-> TRUE]
    ELSE [all  |-> acc \o filtered_messages(page, lo, hi),
          stop |-> ReachedMin(page, lo)]

\* the operation returns `result` to whoever awaits it: a direct caller, or
\* process_command, which answers at once on an empty list and otherwise
\* calls send_message_batch
FetchReturn(p, result) ==
    /\ fetched' = [fetched EXCEPT ![p] = result]
    /\ IF caller[p] = "fetch"
       THEN Goto(p, "returned") /\ UNCHANGED <<response, messages>>
       ELSE IF result = <<>>
            THEN /\ Goto(p, "reply")
                 /\ response' = [response EXCEPT
                                   ![p] = "No messages found or error fetching"]
                 /\ UNCHANGED messages
            ELSE /\ Goto(p, "send_message_batch")
                 /\ messages' = [messages EXCEPT ![p] = result]
                 /\ UNCHANGED response

\* process_command without its except clause
EscapeUncaught(p, exc) ==
    /\ Goto(p, "raised")
    /\ raised' = [raised EXCEPT ![p] = exc]
    /\ UNCHANGED response

\* an exception escapes the operation: to a direct caller, or into the
\* except clause of process_command, which turns it into the response
Escape(p, exc) ==
    IF caller[p] = "command"
    THEN /\ Goto(p, "reply")
         /\ response' = [response EXCEPT ![p] = "Error: " \o exc]
         /\ UNCHANGED raised
    ELSE /\ Goto(p, "raised")
         /\ raised' = [raised EXCEPT ![p] = exc]
         /\ UNCHANGED response

\* the code of fetch_messages_range before its first client call
FetchBody(p) ==
    \E s \in {parse_telegram_link(start_link[p])},
       e \in {parse_telegram_link(end_link[p])} :
        IF ~AllParsed(s, e)
        THEN /\ Escape(p, "ValueError: Invalid links provided")
             /\ UNCHANGED <<all_messages, current_offset_id>>
        ELSE IF ~SameChat(s, e)
        THEN /\ Escape(p, "ValueError: Links must be from the same chat")
             /\ UNCHANGED <<all_messages, current_offset_id>>
        ELSE /\ all_messages' =
                   [all_messages EXCEPT ![p] = FreshMessages(all_messages[p])]
             /\ current_offset_id' =
                   [current_offset_id EXCEPT ![p] = max_id(s.msg, e.msg)]
             /\ Goto(p, "get_chat_history")
             /\ UNCHANGED <<raised, response>>

\* the call of fetch_messages_range
FetchEnter(p) ==
    /\ pc[p] = "fetch_messages_range"
    /\ FetchBody(p)
    /\ UNCHANGED <<inputVars, faults, delivered, messages, i, k, sent_count,
                   fetched, success, ev>>

\* get_chat_history returns a page
GetChatHistoryPage(p) ==
    /\ pc[p] = "get_chat_history"
    /\ \E lo \in {Lo(p)}, hi \in {Hi(p)} :
       \E page \in {get_chat_history(history, PageLimit, current_offset_id[p])} :
       \E step \in {PageStep(page, lo, hi, all_messages[p])} :
       LET call == Event("get_chat_history", current_offset_id[p], "ok")
       IN  IF step.stop
           THEN \E sorted \in {SortById(step.all)} :
                /\ all_messages' = [all_messages EXCEPT ![p] = sorted]
                /\ FetchReturn(p, sorted)
                /\ Log(p, <<call>>)
                /\ UNCHANGED current_offset_id
           ELSE /\ all_messages' = [all_messages EXCEPT ![p] = step.all]
                /\ current_offset_id' =
                      [current_offset_id EXCEPT
                         ![p] = NextOffset(page, current_offset_id[p])]
                /\ Log(p, <<call, Event("sleep(1)", 0, "ok")>>)
                /\ UNCHANGED <<pc, fetched, response, messages>>
    /\ UNCHANGED <<inputVars, faults, delivered, i, k, sent_count, raised, success>>

\* get_chat_history raises FloodWait: sleep, then the recursive call
GetChatHistoryFloodWait(p) ==
    /\ pc[p] = "get_chat_history"
    /\ MayFail
    /\ faults' = faults + 1
    /\ Log(p, <<Event("get_chat_history", current_offset_id[p], "FloodWait"),
                Event("sleep(e.x+5)", 0, "ok")>>)
    /\ FetchBody(p)
    /\ UNCHANGED <<inputVars, delivered, messages, i, k, sent_count, fetched, success>>

\* get_chat_history raises anything else: the empty list is returned
GetChatHistoryError(p) ==
    /\ pc[p] = "get_chat_history"
    /\ MayFail
    /\ faults' = faults + 1
    /\ Log(p, <<Event("get_chat_history", current_offset_id[p], "Exception")>>)
    /\ FetchReturn(p, <<>>)
    /\ UNCHANGED <<inputVars, delivered, all_messages, current_offset_id, i, k,
                   sent_count, raised, success>>

(***************************************************************************)
(* A direct call of fetch_messages_range on any two links and any history. *)
(***************************************************************************)
Idle(v) == [p \in Procs |-> v]

InitFetch ==
    /\ history \in SUBSET (1..MaxFetchId)
    /\ texts = {}
    /\ batch_size = 1
    /\ faults = 0
    /\ delivered = <<>>
    /\ pc = [p \in Procs |-> IF p = 1 THEN "fetch_messages_range" ELSE "off"]
    /\ caller = Idle("fetch")
    /\ command_text = Idle([cmd |-> "", args |-> <<>>])
    /\ \E a \in Links, b \in Links :
          /\ start_link = [p \in Procs |-> a]
          /\ end_link = [p \in Procs |-> b]
    /\ all_messages = Idle(<<>>)
    /\ current_offset_id = Idle(0)
    /\ messages = Idle(<<>>)
    /\ i = Idle(0)
    /\ k = Idle(0)
    /\ sent_count = Idle(0)
    /\ fetched = Idle(<<>>)
    /\ raised = Idle("")
    /\ success = Idle("")
    /\ response = Idle("")
    /\ ev = Idle(<<>>)

NextFetch ==
    \E p \in Procs :
        \/ FetchEnter(p)
        \/ GetChatHistoryPage(p)
        \/ GetChatHistoryFloodWait(p)
        \/ GetChatHistoryError(p)

SpecFetch == InitFetch /\ [][NextFetch]_vars

\* the same call under the scheduling of the event loop: the coroutine is
\* resumed when the call it awaits has completed, with a result or an
\* exception; the client raises at most MaxFaults times.  The links are of
\* one public and one private form, valid or not.
FairLinks ==
    {UserLink(m) : m \in 0..MaxFetchId}
        \cup {HttpsChannelLink(m) : m \in 0..MaxFetchId} \cup {BadLink}

InitFetchFair ==
    /\ InitFetch
    /\ start_link[1] \in FairLinks
    /\ end_link[1] \in FairLinks

NextFetchFair ==
    \E p \in Procs :
        \/ FetchEnter(p)
        \/ GetChatHistoryPage(p)
        \/ GetChatHistoryFloodWait(p)
        \/ GetChatHistoryError(p)

SpecFetchFair == InitFetchFair /\ [][NextFetchFair]_vars /\ WF_vars(NextFetchFair)

(***************************************************************************)
(* The whole page walk of one call that is never interrupted, as a         *)
(* function of the history and the two message ids: the returned list and  *)
(* the offsets requested.                                                  *)
(***************************************************************************)
RECURSIVE Walk(_, _, _, _, _, _)
Walk(h, lo, hi, offset, acc, reqs) ==
    LET page == get_chat_history(h, PageLimit, offset)
        step == PageStep(page, lo, hi, acc)
    IN  IF step.stop
        THEN [all |-> SortById(step.all), reqs |-> Append(reqs, offset)]
        ELSE Walk(h, lo, hi, NextOffset(page, offset), step.all,
                  Append(reqs, offset))

UnthrottledFetch(h, a, b) ==
    Walk(h, min_id(a, b), max_id(a, b), max_id(a, b), <<>>, <<>>)

(***************************************************************************)
(* send_message_batch                                                      *)
(***************************************************************************)
MinOf(a, b) == IF a <= b THEN a ELSE b

\* total_batches = (len(messages) + batch_size - 1) // batch_size
total_batches(n, size) == (n + size - 1) \div size

BatchShort(p) == SubSeq(messages[p], i[p] + 1,
                        MinOf(i[p] + batch_size - 1, Len(messages[p])))

\* batch = messages[i:i + batch_size]
batch(p) == SubSeq(messages[p], i[p] + 1,
                   MinOf(i[p] + batch_size, Len(messages[p])))

\* the delivered counter after one more successful copy
SentUncounted(n) == n
SentAfterCopy(n) == n + 1

\* the operation returns to whoever awaits it: a direct caller, or
\* process_command, which makes the response of it
SendReturn(p, value) ==
    /\ success' = [success EXCEPT ![p] = value]
    /\ IF caller[p] = "command"
       THEN /\ Goto(p, "reply")
            /\ response' = [response EXCEPT ![p] =
                  IF value = "True" THEN "Batch processing completed"
                                    ELSE "Batch processing failed"]
       ELSE Goto(p, "returned") /\ UNCHANGED response

\* the kinds of exception a client call can raise
Exceptions == {"FloodWait", "Exception"}

\* the call of send_message_batch
SendEnter(p) ==
    /\ pc[p] = "send_message_batch"
    /\ IF messages[p] = <<>>
       THEN SendReturn(p, "False") /\ UNCHANGED <<i, k, sent_count>>
       ELSE /\ sent_count' = [sent_count EXCEPT ![p] = 0]
            /\ i' = [i EXCEPT ![p] = 0]
            /\ Goto(p, "batch_notification")
            /\ UNCHANGED <<k, success, response>>
    /\ UNCHANGED <<inputVars, fetchVars, faults, delivered, messages, raised, ev>>

\* the progress notification of the chunk at i is sent
BatchNotification(p) ==
    /\ pc[p] = "batch_notification"
    /\ Log(p, <<Event("send_message:batch", Len(batch(p)), "ok")>>)
    /\ k' = [k EXCEPT ![p] = i[p] + 1]
    /\ Goto(p, "copy")
    /\ UNCHANGED <<inputVars, fetchVars, faults, delivered, messages, i,
                   sent_count, raised, success, response>>

\* the progress notification raises: the outer except clause takes over
BatchNotificationRaises(p) ==
    /\ pc[p] = "batch_notification"
    /\ MayFail
    /\ faults' = faults + 1
    /\ \E exc \in Exceptions :
          Log(p, <<Event("send_message:batch", Len(batch(p)), exc)>>)
    /\ Goto(p, "error_notification")
    /\ UNCHANGED <<inputVars, fetchVars, delivered, messages, i, k,
                   sent_count, raised, success, response>>

\* for message in batch: the loop moves to the item after the one at n
ItemAgain(n) == n
NextItem(n) == n + 1

\* after the item at k: the next item of the chunk, the next chunk after
\* the delay between batches, or the completion notification
Advance(p, es) ==
    IF k[p] < i[p] + Len(batch(p))
    THEN /\ k' = [k EXCEPT ![p] = NextItem(k[p])]
         /\ Goto(p, "copy")
         /\ Log(p, es)
         /\ UNCHANGED i
    ELSE IF i[p] + batch_size < Len(messages[p])
    THEN /\ i' = [i EXCEPT ![p] = i[p] + batch_size]
         /\ Goto(p, "batch_notification")
         /\ Log(p, es \o <<Event("sleep(delay)", 0, "ok")>>)
         /\ UNCHANGED k
    ELSE /\ Goto(p, "completion")
         /\ Log(p, es)
         /\ UNCHANGED <<i, k>>

Delivery(p, n, kind) == [p |-> p, id |-> messages[p][n], kind |-> kind]

\* message.copy succeeds
Copy(p) ==
    /\ pc[p] = "copy"
    /\ delivered' = Append(delivered, Delivery(p, k[p], "copy"))
    /\ sent_count' = [sent_count EXCEPT ![p] = SentAfterCopy(sent_count[p])]
    /\ Advance(p, <<Event("copy", k[p], "ok"), Event("sleep(0.5)", 0, "ok")>>)
    /\ UNCHANGED <<inputVars, fetchVars, faults, messages, raised, success,
                   response>>

\* message.copy raises FloodWait: sleep, then copy once more
CopyFloodWait(p) ==
    /\ pc[p] = "copy"
    /\ MayFail
    /\ faults' = faults + 1
    /\ Log(p, <<Event("copy", k[p], "FloodWait"),
                Event("sleep(e.x+2)", 0, "ok")>>)
    /\ Goto(p, "copy_again")
    /\ UNCHANGED <<inputVars, fetchVars, delivered, messages, i, k,
                   sent_count, raised, success, response>>

\* the second message.copy succeeds
CopyAgain(p) ==
    /\ pc[p] = "copy_again"
    /\ delivered' = Append(delivered, Delivery(p, k[p], "copy"))
    /\ sent_count' = [sent_count EXCEPT ![p] = SentAfterCopy(sent_count[p])]
    /\ Advance(p, <<Event("copy", k[p], "ok")>>)
    /\ UNCHANGED <<inputVars, fetchVars, faults, messages, raised, success,
                   response>>

\* the second message.copy raising, were it caught by the inner try: the
\* item is given up and the loop goes on
CopyAgainSwallowed(p) ==
    /\ pc[p] = "copy_again"
    /\ MayFail
    /\ faults' = faults + 1
    /\ \E exc \in Exceptions : Advance(p, <<Event("copy", k[p], exc)>>)
    /\ UNCHANGED <<inputVars, fetchVars, delivered, messages, sent_count,
                   raised, success, response>>

\* the second message.copy raises inside the except clause: nothing of the
\* inner try catches it, the outer except clause takes over
CopyAgainRaises(p) ==
    /\ pc[p] = "copy_again"
    /\ MayFail
    /\ faults' = faults + 1
    /\ \E exc \in Exceptions : Log(p, <<Event("copy", k[p], exc)>>)
    /\ Goto(p, "error_notification")
    /\ UNCHANGED <<inputVars, fetchVars, delivered, messages, i, k,
                   sent_count, raised, success, response>>

\* message.copy raises something else: the text is sent alone if there is
\* one, otherwise the item is dropped
CopyRaises(p) ==
    /\ pc[p] = "copy"
    /\ MayFail
    /\ faults' = faults + 1
    /\ IF messages[p][k[p]] \in texts
       THEN /\ Log(p, <<Event("copy", k[p], "Exception")>>)
            /\ Goto(p, "text_only")
            /\ UNCHANGED <<i, k>>
       ELSE Advance(p, <<Event("copy", k[p], "Exception")>>)
    /\ UNCHANGED <<inputVars, fetchVars, delivered, messages, sent_count,
                   raised, success, response>>

\* the text-only substitute is sent
TextOnly(p) ==
    /\ pc[p] = "text_only"
    /\ delivered' = Append(delivered, Delivery(p, k[p], "text"))
    /\ Advance(p, <<Event("send_message:text", k[p], "ok")>>)
    /\ UNCHANGED <<inputVars, fetchVars, faults, messages, sent_count, raised,
                   success, response>>

\* sending the substitute raises inside the except clause
TextOnlyRaises(p) ==
    /\ pc[p] = "text_only"
    /\ MayFail
    /\ faults' = faults + 1
    /\ \E exc \in Exceptions : Log(p, <<Event("send_message:text", k[p], exc)>>)
    /\ Goto(p, "error_notification")
    /\ UNCHANGED <<inputVars, fetchVars, delivered, messages, i, k,
                   sent_count, raised, success, response>>

\* the completion notification is sent and True is returned
Completion(p) ==
    /\ pc[p] = "completion"
    /\ Log(p, <<Event("send_message:completed", sent_count[p], "ok")>>)
    /\ SendReturn(p, "True")
    /\ UNCHANGED <<inputVars, fetchVars, faults, delivered, messages, i, k,
                   sent_count, raised>>

\* the completion notification raises
CompletionRaises(p) ==
    /\ pc[p] = "completion"
    /\ MayFail
    /\ faults' = faults + 1
    /\ \E exc \in Exceptions :
          Log(p, <<Event("send_message:completed", sent_count[p], exc)>>)
    /\ Goto(p, "error_notification")
    /\ UNCHANGED <<inputVars, fetchVars, delivered, messages, i, k,
                   sent_count, raised, success, response>>

\* the outer except clause: the error notification is sent, False returned
ErrorNotification(p) ==
    /\ pc[p] = "error_notification"
    /\ Log(p, <<Event("send_message:error", sent_count[p], "ok")>>)
    /\ SendReturn(p, "False")
    /\ UNCHANGED <<inputVars, fetchVars, faults, delivered, messages, i, k,
                   sent_count, raised>>

\* the error notification raises: the exception leaves send_message_batch
ErrorNotificationRaises(p) ==
    /\ pc[p] = "error_notification"
    /\ MayFail
    /\ faults' = faults + 1
    /\ \E exc \in Exceptions :
          /\ Log(p, <<Event("send_message:error", sent_count[p], exc)>>)
          /\ Escape(p, exc)
    /\ UNCHANGED <<inputVars, fetchVars, delivered, messages, i, k,
                   sent_count, success>>

SendStep(p) ==
    \/ SendEnter(p)
    \/ BatchNotification(p)
    \/ BatchNotificationRaises(p)
    \/ Copy(p)
    \/ CopyFloodWait(p)
    \/ CopyAgain(p)
    \/ CopyAgainRaises(p)
    \/ CopyRaises(p)
    \/ TextOnly(p)
    \/ TextOnlyRaises(p)
    \/ Completion(p)
    \/ CompletionRaises(p)
    \/ ErrorNotification(p)
    \/ ErrorNotificationRaises(p)

(***************************************************************************)
(* A direct call of send_message_batch on any ascending list of messages,  *)
(* with or without text, and any batch_size.                               *)
(***************************************************************************)
InitSend ==
    /\ history \in SUBSET (1..MaxId)
    /\ texts \in SUBSET history
    /\ batch_size \in 1..MaxChunk
    /\ faults = 0
    /\ delivered = <<>>
    /\ pc = [p \in Procs |-> IF p = 1 THEN "send_message_batch" ELSE "off"]
    /\ caller = Idle("send")
    /\ command_text = Idle([cmd |-> "", args |-> <<>>])
    /\ start_link = Idle(<<>>)
    /\ end_link = Idle(<<>>)
    /\ all_messages = Idle(<<>>)
    /\ current_offset_id = Idle(0)
    /\ messages = [p \in Procs |-> IF p = 1 THEN SortById(Descending(history))
                                            ELSE <<>>]
    /\ i = Idle(0)
    /\ k = Idle(0)
    /\ sent_count = Idle(0)
    /\ fetched = Idle(<<>>)
    /\ raised = Idle("")
    /\ success = Idle("")
    /\ response = Idle("")
    /\ ev = Idle(<<>>)

NextSend == \E p \in Procs : SendStep(p)

SpecSend == InitSend /\ [][NextSend]_vars

(***************************************************************************)
(* handle_message and process_command, for the /batch command of the       *)
(* authorized operator.                                                    *)
(***************************************************************************)
\* the command is read and the processing message is sent
ProcessCommand(p) ==
    /\ pc[p] = "handle_message"
    /\ command_text[p].cmd = "/batch"
    /\ IF Len(command_text[p].args) # 2
       THEN /\ response' = [response EXCEPT
                              ![p] = "Usage: /batch <start_link> <end_link>"]
            /\ Goto(p, "reply")
            /\ UNCHANGED <<start_link, end_link, ev>>
       ELSE /\ start_link' = [start_link EXCEPT ![p] = command_text[p].args[1]]
            /\ end_link' = [end_link EXCEPT ![p] = command_text[p].args[2]]
            /\ Log(p, <<Event("send_message:processing", 0, "ok")>>)
            /\ Goto(p, "fetch_messages_range")
            /\ UNCHANGED response
    /\ UNCHANGED <<envVars, fetchVars, sendVars, faults, raised>>

\* sending the processing message raises: process_command answers the error
ProcessCommandRaises(p) ==
    /\ pc[p] = "handle_message"
    /\ command_text[p].cmd = "/batch"
    /\ Len(command_text[p].args) = 2
    /\ MayFail
    /\ faults' = faults + 1
    /\ start_link' = [start_link EXCEPT ![p] = command_text[p].args[1]]
    /\ end_link' = [end_link EXCEPT ![p] = command_text[p].args[2]]
    /\ \E exc \in Exceptions :
          /\ Log(p, <<Event("send_message:processing", 0, exc)>>)
          /\ Escape(p, exc)
    /\ UNCHANGED <<envVars, fetchVars, sendVars>>

\* message.reply(response)
Reply(p) ==
    /\ pc[p] = "reply"
    /\ Log(p, <<Event("reply", 0, "ok")>>)
    /\ Goto(p, "done")
    /\ UNCHANGED <<inputVars, fetchVars, sendVars, faults, raised, response>>

\* message.reply(response) raises: handle_message replies the error
ReplyRaises(p) ==
    /\ pc[p] = "reply"
    /\ MayFail
    /\ faults' = faults + 1
    /\ \E exc \in Exceptions : Log(p, <<Event("reply", 0, exc)>>)
    /\ Goto(p, "reply_error")
    /\ UNCHANGED <<inputVars, fetchVars, sendVars, raised, response>>

\* the reply of the except clause of handle_message
ReplyError(p) ==
    /\ pc[p] = "reply_error"
    /\ Log(p, <<Event("reply_error", 0, "ok")>>)
    /\ Goto(p, "done")
    /\ UNCHANGED <<inputVars, fetchVars, sendVars, faults, raised, response>>

\* that reply raises too: the exception leaves handle_message
ReplyErrorRaises(p) ==
    /\ pc[p] = "reply_error"
    /\ MayFail
    /\ faults' = faults + 1
    /\ \E exc \in Exceptions :
          /\ Log(p, <<Event("reply_error", 0, exc)>>)
          /\ raised' = [raised EXCEPT ![p] = exc]
    /\ Goto(p, "done")
    /\ UNCHANGED <<inputVars, fetchVars, sendVars, response>>

\* /single: the argument count, then fetch_single_message up to its client
\* call; a link that does not parse gives None with no call at all
SingleCommand(p) ==
    /\ pc[p] = "handle_message"
    /\ command_text[p].cmd = "/single"
    /\ IF Len(command_text[p].args) # 1
       THEN /\ response' = [response EXCEPT
                              ![p] = "Usage: /single <message_link>"]
            /\ Goto(p, "reply")
            /\ UNCHANGED start_link
       ELSE \E link \in {command_text[p].args[1]} :
            \E g \in {parse_telegram_link(link)} :
                /\ start_link' = [start_link EXCEPT ![p] = link]
                /\ IF ~TruthyChat(g.chat) \/ ~TruthyMsg(g.msg)
                   THEN /\ response' = [response EXCEPT
                                          ![p] = "Unable to fetch message"]
                        /\ Goto(p, "reply")
                   ELSE /\ Goto(p, "get_messages")
                        /\ UNCHANGED response
    /\ UNCHANGED <<envVars, end_link, fetchVars, sendVars, faults, raised, ev>>

\* the id fetch_single_message parsed from the link
message_id(p) == parse_telegram_link(start_link[p]).msg

\* client.get_messages returns: the message, or nothing
GetMessages(p) ==
    /\ pc[p] = "get_messages"
    /\ Log(p, <<Event("get_messages", message_id(p), "ok")>>)
    /\ \E message \in {"Message", "None"} :
          IF message = "None"
          THEN /\ response' = [response EXCEPT
                                 ![p] = "Unable to fetch message"]
               /\ Goto(p, "reply")
          ELSE /\ Goto(p, "message.copy")
               /\ UNCHANGED response
    /\ UNCHANGED <<inputVars, fetchVars, sendVars, faults, raised>>

\* client.get_messages raises: fetch_single_message returns None
GetMessagesRaises(p) ==
    /\ pc[p] = "get_messages"
    /\ MayFail
    /\ faults' = faults + 1
    /\ \E exc \in Exceptions :
          Log(p, <<Event("get_messages", message_id(p), exc)>>)
    /\ response' = [response EXCEPT ![p] = "Unable to fetch message"]
    /\ Goto(p, "reply")
    /\ UNCHANGED <<inputVars, fetchVars, sendVars, raised>>

\* message.copy of /single succeeds
CopySingle(p) ==
    /\ pc[p] = "message.copy"
    /\ Log(p, <<Event("message.copy", message_id(p), "ok")>>)
    /\ delivered' = Append(delivered,
                           [p |-> p, id |-> message_id(p), kind |-> "single"])
    /\ response' = [response EXCEPT ![p] = "Message sent"]
    /\ Goto(p, "reply")
    /\ UNCHANGED <<inputVars, fetchVars, messages, i, k, sent_count, success,
                   faults, raised>>

\* message.copy of /single raises: process_command answers the error
CopySingleRaises(p) ==
    /\ pc[p] = "message.copy"
    /\ MayFail
    /\ faults' = faults + 1
    /\ \E exc \in Exceptions :
          /\ Log(p, <<Event("message.copy", message_id(p), exc)>>)
          /\ Escape(p, exc)
    /\ UNCHANGED <<inputVars, fetchVars, sendVars>>

\* /help, and every text that is no command
HelpCommand(p) ==
    /\ pc[p] = "handle_message"
    /\ command_text[p].cmd = "/help"
    /\ response' = [response EXCEPT ![p] = "Content Fetcher Bot"]
    /\ Goto(p, "reply")
    /\ UNCHANGED <<inputVars, fetchVars, sendVars, faults, raised, ev>>

UnknownCommand(p) ==
    /\ pc[p] = "handle_message"
    /\ command_text[p].cmd \notin {"/batch", "/single", "/help"}
    /\ response' = [response EXCEPT
          ![p] = "Unknown command. Use /help to see available commands."]
    /\ Goto(p, "reply")
    /\ UNCHANGED <<inputVars, fetchVars, sendVars, faults, raised, ev>>

SingleStep(p) ==
    \/ SingleCommand(p)
    \/ GetMessages(p)
    \/ GetMessagesRaises(p)
    \/ CopySingle(p)
    \/ CopySingleRaises(p)
    \/ HelpCommand(p)
    \/ UnknownCommand(p)

CommandStep(p) ==
    \/ ProcessCommand(p)
    \/ ProcessCommandRaises(p)
    \/ Reply(p)
    \/ ReplyRaises(p)
    \/ ReplyError(p)
    \/ ReplyErrorRaises(p)

FetchStep(p) ==
    \/ FetchEnter(p)
    \/ GetChatHistoryPage(p)
    \/ GetChatHistoryFloodWait(p)
    \/ GetChatHistoryError(p)

(***************************************************************************)
(* One command on any history: /batch on any two links, /single on any     *)
(* link, /help, and the malformed texts.  batch_size is the value          *)
(* process_command passes (10 in the code, scaled down here).              *)
(***************************************************************************)
CommandLinks == {UserLink(m) : m \in 1..MaxId} \cup {ChannelLink(1), BadLink}

BatchCommand(a, b) == [cmd |-> "/batch", args |-> <<a, b>>]

NoCommand == [cmd |-> "", args |-> <<>>]

\* the texts the operator may send: the three commands with every argument
\* count the code tells apart, and a text that is no command
Commands ==
    {BatchCommand(a, b) : a \in CommandLinks, b \in CommandLinks}
        \cup {[cmd |-> "/single", args |-> <<a>>] : a \in CommandLinks}
        \cup {[cmd |-> c, args |-> <<>>] :
                 c \in {"/batch", "/single", "/help", "hello"}}
        \cup {[cmd |-> "/batch", args |-> <<BadLink>>],
              [cmd |-> "/batch", args |-> <<BadLink, BadLink, BadLink>>],
              [cmd |-> "/single", args |-> <<BadLink, BadLink>>]}

InitCommand(commands) ==
    /\ faults = 0
    /\ delivered = <<>>
    /\ pc = [p \in Procs |-> IF commands[p] = NoCommand THEN "off"
                                                       ELSE "handle_message"]
    /\ caller = Idle("command")
    /\ command_text = commands
    /\ start_link = Idle(<<>>)
    /\ end_link = Idle(<<>>)
    /\ all_messages = Idle(<<>>)
    /\ current_offset_id = Idle(0)
    /\ messages = Idle(<<>>)
    /\ i = Idle(0)
    /\ k = Idle(0)
    /\ sent_count = Idle(0)
    /\ fetched = Idle(<<>>)
    /\ raised = Idle("")
    /\ success = Idle("")
    /\ response = Idle("")
    /\ ev = Idle(<<>>)

Init ==
    /\ history \in SUBSET (1..MaxId)
    /\ texts \in SUBSET history
    /\ batch_size \in 1..MaxChunk
    /\ \E c \in Commands :
          InitCommand([p \in Procs |-> IF p = 1 THEN c ELSE NoCommand])

Next ==
    \E p \in Procs :
        CommandStep(p) \/ SingleStep(p) \/ FetchStep(p) \/ SendStep(p)

Spec == Init /\ [][Next]_vars

(***************************************************************************)
(* Every command on any history, the odd messages having text, under       *)
(* the scheduling of the event loop: a coroutine whose awaited call has    *)
(* completed, with a result or an exception, is resumed.                   *)
(***************************************************************************)
InitLive ==
    /\ history \in SUBSET (1..MaxId)
    /\ texts = {m \in history : m % 2 = 1}
    /\ batch_size \in 1..MaxChunk
    /\ \E c \in Commands :
          InitCommand([p \in Procs |-> IF p = 1 THEN c ELSE NoCommand])

NextLive ==
    \E p \in Procs :
        CommandStep(p) \/ SingleStep(p) \/ FetchStep(p) \/ SendStep(p)

SpecLive == InitLive /\ [][NextLive]_vars /\ WF_vars(NextLive)

(***************************************************************************)
(* Two /batch commands in flight at once on the same chat, each a pipeline *)
(* of its own on the shared client, interleaving at every suspension       *)
(* point.  The odd messages have text.                                     *)
(***************************************************************************)
InitTwo ==
    /\ history = 1..MaxId
    /\ texts = {m \in history : m % 2 = 1}
    /\ batch_size \in 1..MaxChunk
    /\ InitCommand([p \in Procs |->
          IF p = 1 THEN BatchCommand(UserLink(1), UserLink(MaxId))
                   ELSE BatchCommand(HttpsUserLink(MaxId), HttpsUserLink(1))])

NextTwo == \E p \in Procs : CommandStep(p) \/ FetchStep(p) \/ SendStep(p)

SpecTwo == InitTwo /\ [][NextTwo]_vars

(***************************************************************************)
(* Reading the record of a run.                                            *)
(***************************************************************************)
Range(seq) == {seq[n] : n \in 1..Len(seq)}

IsCall(e) == e.op \notin {"sleep(1)", "sleep(e.x+5)", "sleep(0.5)",
                          "sleep(e.x+2)", "sleep(delay)"}

Calls(p) == SelectSeq(ev[p], IsCall)

IsHistoryCall(e) == e.op = "get_chat_history"

\* the offsets of the page requests of coroutine p, in order
PageRequests(p) ==
    LET hc == SelectSeq(ev[p], IsHistoryCall)
    IN  [n \in 1..Len(hc) |-> hc[n].arg]

Throttled(p) == \E n \in 1..Len(ev[p]) : ev[p][n].res = "FloodWait"
Failed(p)    == \E n \in 1..Len(ev[p]) : ev[p][n].res = "Exception"

StartMsg(p) == parse_telegram_link(start_link[p]).msg
EndMsg(p)   == parse_telegram_link(end_link[p]).msg
StartChat(p) == parse_telegram_link(start_link[p]).chat
EndChat(p)   == parse_telegram_link(end_link[p]).chat

\* the ids of the history between the two linked messages, both included
Window(p) ==
    {s \in history : /\ \E m \in {StartMsg(p), EndMsg(p)} : m <= s
                     /\ \E m \in {StartMsg(p), EndMsg(p)} : s <= m}

(***************************************************************************)
(* C1: a fetch that no client call interrupts returns exactly the history  *)
(* ids between the two linked messages, the newer linked message included. *)
(* The code never requests the message at max(a,b): the first page holds   *)
(* the messages older than it.                                             *)
(***************************************************************************)
C1_ExactWindow ==
    (pc[1] = "returned" /\ ~Throttled(1) /\ ~Failed(1))
        => Range(fetched[1]) = Window(1)

(***************************************************************************)
(* C2: after a FloodWait on a page request the walk starts again at the    *)
(* newer linked id with an empty list, and what is finally returned is     *)
(* what the uninterrupted walk returns on the same history.                *)
(***************************************************************************)
LastEventIsFloodSleep(p) ==
    ev[p] # <<>> /\ ev[p][Len(ev[p])].op = "sleep(e.x+5)"

C2_ThrottleRestart ==
    /\ (pc[1] = "get_chat_history" /\ LastEventIsFloodSleep(1))
          => /\ all_messages[1] = <<>>
             /\ current_offset_id[1] = Hi(1)
    /\ (pc[1] = "returned" /\ ~Failed(1))
          => fetched[1] = UnthrottledFetch(history, StartMsg(1), EndMsg(1)).all

\* a page was retained, then a request was throttled, and the call returned
C2_Witness ==
    /\ pc[1] = "returned"
    /\ ~Failed(1)
    /\ fetched[1] # <<>>
    /\ \E n \in 2..Len(ev[1]) :
          /\ ev[1][n].res = "FloodWait"
          /\ ev[1][n].arg < Hi(1)

(***************************************************************************)
(* C3: on a fixed history and with no client failure, the call on (X, Y)   *)
(* requests the pages and returns the list of the call on (Y, X).          *)
(***************************************************************************)
C3_OrderInvariance ==
    (pc[1] = "returned" /\ ~Throttled(1) /\ ~Failed(1))
        => LET swapped == UnthrottledFetch(history, EndMsg(1), StartMsg(1))
           IN  /\ PageRequests(1) = swapped.reqs
               /\ fetched[1] = swapped.all

\* a call with the newer link first that walked two pages and found messages
C3_Witness ==
    /\ pc[1] = "returned"
    /\ ~Throttled(1) /\ ~Failed(1)
    /\ StartMsg(1) > EndMsg(1)
    /\ Len(PageRequests(1)) >= 2
    /\ Len(fetched[1]) >= 2

(***************************************************************************)
(* C4: when the two links parse to different chat identifiers the call     *)
(* raises ValueError, never returns a list, and has made no client call.   *)
(***************************************************************************)
C4_CrossChatRaises ==
    (StartChat(1) # EndChat(1))
        => /\ pc[1] \in {"fetch_messages_range", "raised"}
           /\ ev[1] = <<>>
           /\ pc[1] = "raised" =>
                 raised[1] \in {"ValueError: Invalid links provided",
                                "ValueError: Links must be from the same chat"}

\* two well-formed links of two chats, and the call has raised
C4_Witness ==
    /\ StartChat(1) # EndChat(1)
    /\ AllParsed(parse_telegram_link(start_link[1]),
                 parse_telegram_link(end_link[1]))
    /\ pc[1] = "raised"
    /\ raised[1] = "ValueError: Links must be from the same chat"

(***************************************************************************)
(* Reading the record of a run of send_message_batch.                      *)
(***************************************************************************)
\* the client calls of coroutine p as <<operation, argument>> pairs
CallSigs(p) ==
    [n \in 1..Len(Calls(p)) |-> <<Calls(p)[n].op, Calls(p)[n].arg>>]

\* the events of coroutine p on the n-th input message
Attempts(p, n) == SelectSeq(ev[p], LAMBDA e : e.op = "copy" /\ e.arg = n)

EventsOf(p, op) == SelectSeq(ev[p], LAMBDA e : e.op = op)

\* what coroutine p delivered to the destination, in order of arrival
DeliveredBy(p) == SelectSeq(delivered, LAMBDA d : d.p = p)
DeliveredIds(p) == [n \in 1..Len(DeliveredBy(p)) |-> DeliveredBy(p)[n].id]

\* ceil(n / c)
CeilDiv(n, c) == CHOOSE q \in 0..n : q * c >= n /\ (q - 1) * c < n

\* the calls of a run on n messages in chunks of c that nothing disturbs:
\* per chunk one progress notification and the copies of its items
RECURSIVE ChunkCalls(_, _, _)
ChunkCalls(done, n, c) ==
    IF done >= n THEN <<>>
    ELSE LET size == IF done + c <= n THEN c ELSE n - done
         IN  <<<<"send_message:batch", size>>>>
             \o [j \in 1..size |-> <<"copy", done + j>>]
             \o ChunkCalls(done + c, n, c)

(***************************************************************************)
(* C5: a run of send_message_batch on n >= 1 messages with chunk size c in *)
(* which no client call fails sends ceil(n/c) progress notifications, one  *)
(* before each chunk, copies the items chunk by chunk in input order, the  *)
(* chunks of size c except a smaller last one, and ends with exactly one   *)
(* summary notification.                                                   *)
(***************************************************************************)
C5_ChunksAndNotifications ==
    (pc[1] = "returned" /\ messages[1] # <<>> /\ ~Throttled(1) /\ ~Failed(1))
        => LET n == Len(messages[1])
           IN  /\ CallSigs(1) = ChunkCalls(0, n, batch_size)
                                   \o <<<<"send_message:completed", n>>>>
               /\ Len(EventsOf(1, "send_message:batch")) = CeilDiv(n, batch_size)
               /\ Len(EventsOf(1, "send_message:completed")) = 1
               /\ DeliveredIds(1) = messages[1]
               /\ success[1] = "True"

\* three messages in chunks of two: chunks 2 and 1, two progress
\* notifications, one summary
C5_Witness ==
    /\ pc[1] = "returned"
    /\ ~Throttled(1) /\ ~Failed(1)
    /\ Len(messages[1]) = 3
    /\ batch_size = 2
    /\ Len(EventsOf(1, "send_message:batch")) = 2
    /\ Len(EventsOf(1, "send_message:completed")) = 1

(***************************************************************************)
(* C6: when the only failures of a run are copies throttled once whose     *)
(* retry succeeds, each such item is copied exactly once more, right after *)
(* the wait, every item is delivered once in input order, and the summary  *)
(* reports total/total with success = true.                                *)
(***************************************************************************)
\* the n-th event of p is the first copy of its item
FirstAttempt(p, n) ==
    /\ ev[p][n].op = "copy"
    /\ \A m \in 1..(n - 1) : ~(ev[p][m].op = "copy" /\ ev[p][m].arg = ev[p][n].arg)

\* every failed call of p is the first copy of an item, throttled
OnlyCopyThrottles(p) ==
    \A n \in 1..Len(ev[p]) :
        ev[p][n].res # "ok" => (FirstAttempt(p, n) /\ ev[p][n].res = "FloodWait")

C6_ThrottledItemRetriedOnce ==
    /\ \A n \in 1..Len(ev[1]) :
          (FirstAttempt(1, n) /\ ev[1][n].res = "FloodWait")
          => /\ n < Len(ev[1]) => ev[1][n + 1].op = "sleep(e.x+2)"
             /\ n + 1 < Len(ev[1]) =>
                   (ev[1][n + 2].op = "copy" /\ ev[1][n + 2].arg = ev[1][n].arg)
             /\ Len(Attempts(1, ev[1][n].arg)) <= 2
    /\ (pc[1] = "returned" /\ Throttled(1) /\ OnlyCopyThrottles(1))
          => /\ \A n \in 1..Len(messages[1]) :
                   Len(Attempts(1, n)) =
                       IF Attempts(1, n)[1].res = "FloodWait" THEN 2 ELSE 1
             /\ DeliveredIds(1) = messages[1]
             /\ Calls(1)[Len(Calls(1))] =
                   Event("send_message:completed", Len(messages[1]), "ok")
             /\ success[1] = "True"

\* the second of three items was throttled once and the run completed
C6_Witness ==
    /\ pc[1] = "returned"
    /\ OnlyCopyThrottles(1)
    /\ Len(messages[1]) = 3
    /\ Len(Attempts(1, 2)) = 2
    /\ Len(Attempts(1, 3)) = 1
    /\ success[1] = "True"

(***************************************************************************)
(* C7: every item the destination received, as a copy or as a text-only    *)
(* substitute, is counted in the delivered count of the summary.  The code *)
(* counts the copies only.                                                 *)
(***************************************************************************)
C7_SubstituteCounted ==
    (pc[1] = "returned" /\ success[1] = "True")
        => sent_count[1] = Len(DeliveredBy(1))

(***************************************************************************)
(* C8: when the only failures of a run are non-throttling failures of item *)
(* transfers (of a copy, of the copy retried after a throttle wait, or of  *)
(* the text-only substitute), every item is attempted and the run ends     *)
(* with the summary and success = true.  The code aborts the batch when    *)
(* the retry or the substitute fails.                                      *)
(***************************************************************************)
\* every failed call of p is an item transfer that failed without
\* throttling, or the first copy of an item throttled once
OnlyTransferFailures(p) ==
    \A n \in 1..Len(ev[p]) :
        ev[p][n].res # "ok" =>
            \/ /\ ev[p][n].op \in {"copy", "send_message:text"}
               /\ ev[p][n].res = "Exception"
            \/ FirstAttempt(p, n) /\ ev[p][n].res = "FloodWait"

C8_TransferFailureNeverAborts ==
    (pc[1] = "returned" /\ Failed(1) /\ OnlyTransferFailures(1))
        => /\ \A n \in 1..Len(messages[1]) : Attempts(1, n) # <<>>
           /\ EventsOf(1, "send_message:completed") # <<>>
           /\ success[1] = "True"

(***************************************************************************)
(* C9: a /batch command whose client calls fail by throttling only, on a   *)
(* page request, an item copy or its retry, a progress notification or a   *)
(* text substitute, never shows the operator an error notification or a    *)
(* failure response.  The code retries only a throttled page request and a *)
(* throttled first copy.                                                   *)
(***************************************************************************)
\* every failed call of p was throttled, at one of the calls of the two
\* operations
OnlyThrottled(p) ==
    \A n \in 1..Len(ev[p]) :
        ev[p][n].res # "ok" =>
            /\ ev[p][n].res = "FloodWait"
            /\ ev[p][n].op \in {"get_chat_history", "copy",
                                "send_message:batch", "send_message:text"}

C9_ThrottlingAbsorbed ==
    OnlyThrottled(1)
        => /\ EventsOf(1, "send_message:error") = <<>>
           /\ response[1] \notin {"Batch processing failed", "Error: FloodWait"}

(***************************************************************************)
(* C10: what each command's pipeline delivers to the destination, copies   *)
(* and text-only substitutes, arrives in strictly ascending order of       *)
(* source message id, whatever fails and however the two pipelines         *)
(* interleave.                                                             *)
(***************************************************************************)
StrictlyAscending(seq) ==
    \A m \in 1..Len(seq), n \in 1..Len(seq) : m < n => seq[m] < seq[n]

C10_DeliveryOrder ==
    \A p \in Procs : StrictlyAscending(DeliveredIds(p))

\* the two pipelines' deliveries alternate, one of them a text substitute,
\* after a throttled call
C10_Witness ==
    /\ Len(delivered) = 4
    /\ delivered[1].p = 1 /\ delivered[2].p = 2
    /\ delivered[3].p = 1 /\ delivered[4].p = 2
    /\ \E n \in 1..4 : delivered[n].kind = "text"
    /\ Throttled(1) \/ Throttled(2)

(***************************************************************************)
(* C11: when a link of a /single or /batch command matches none of the     *)
(* recognized forms, the failure is answered with no client call made for  *)
(* the command before the answer.  /batch sends its processing message     *)
(* before fetch_messages_range parses the links.                           *)
(***************************************************************************)
\* the command has the right number of arguments and one of them is a link
\* of no recognized form
HasUnrecognizedLink(p) ==
    LET c == command_text[p]
    IN  /\ \/ c.cmd = "/batch" /\ Len(c.args) = 2
           \/ c.cmd = "/single" /\ Len(c.args) = 1
        /\ \E n \in 1..Len(c.args) : parse_telegram_link(c.args[n]) = ParseNone

\* the answers that report the parse failure: the ValueError of
\* fetch_messages_range, the None of fetch_single_message
ParseFailureReported(p) ==
    /\ pc[p] = "reply"
    /\ response[p] \in {"Error: ValueError: Invalid links provided",
                        "Unable to fetch message"}

C11_ParseFailureBeforeAnyCall ==
    (HasUnrecognizedLink(1) /\ ParseFailureReported(1)) => Calls(1) = <<>>

(***************************************************************************)
(* C12: whatever the command text and whichever client calls fail, the     *)
(* error notification of send_message_batch included, process_command      *)
(* comes to an end by returning one of its status strings and no exception *)
(* leaves it; /batch and /single with a wrong number of arguments return   *)
(* the usage string, with no client call.                                  *)
(***************************************************************************)
StatusStrings ==
    {"Usage: /batch <start_link> <end_link>",
     "No messages found or error fetching",
     "Batch processing completed", "Batch processing failed",
     "Usage: /single <message_link>", "Message sent",
     "Unable to fetch message", "Content Fetcher Bot",
     "Unknown command. Use /help to see available commands.",
     "Error: ValueError: Invalid links provided",
     "Error: ValueError: Links must be from the same chat",
     "Error: FloodWait", "Error: Exception"}

\* process_command has returned to handle_message
Answered(p) == pc[p] \in {"reply", "reply_error", "done"}

WrongArgumentCount(p) ==
    \/ command_text[p].cmd = "/batch" /\ Len(command_text[p].args) # 2
    \/ command_text[p].cmd = "/single" /\ Len(command_text[p].args) # 1

UsageOf(p) ==
    IF command_text[p].cmd = "/batch"
    THEN "Usage: /batch <start_link> <end_link>"
    ELSE "Usage: /single <message_link>"

AnswerIsStatusString ==
    /\ pc[1] \notin {"raised", "returned"}
    /\ ~Answered(1) => response[1] = ""
    /\ Answered(1) => response[1] \in StatusStrings
    /\ raised[1] # "" =>
          /\ pc[1] = "done"
          /\ ev[1][Len(ev[1])].op = "reply_error"
    /\ (Answered(1) /\ WrongArgumentCount(1)) =>
          /\ response[1] = UsageOf(1)
          /\ \A n \in 1..Len(ev[1]) : ev[1][n].op \in {"reply", "reply_error"}

C12_AlwaysAStatusString == []AnswerIsStatusString /\ <>Answered(1)

\* the error notification of send_message_batch itself fails, and the
\* operator is answered with the error
C12_Witness ==
    /\ pc[1] = "done"
    /\ raised[1] = ""
    /\ response[1] = "Error: Exception"
    /\ \E n \in 1..Len(ev[1]) :
          ev[1][n].op = "send_message:error" /\ ev[1][n].res = "Exception"

(***************************************************************************)
(* C13: when a page request fails with an error that is no FloodWait       *)
(* after an earlier page of the same attempt was retained, the loop ends   *)
(* and the messages gathered so far are what fetch_messages_range returns. *)
(* The except clause returns the empty list.                               *)
(***************************************************************************)
\* the last page request raised an exception that is no FloodWait
LastRequestFailed(p) ==
    /\ ev[p] # <<>>
    /\ ev[p][Len(ev[p])].op = "get_chat_history"
    /\ ev[p][Len(ev[p])].res = "Exception"

C13_PartialResultReturned ==
    (pc[1] = "returned" /\ LastRequestFailed(1) /\ all_messages[1] # <<>>)
        => fetched[1] = SortById(all_messages[1])

(***************************************************************************)
(* C14: when message.copy of an item raises FloodWait and the one retry    *)
(* raises FloodWait again, the item gets no third attempt, no later item   *)
(* is attempted, nothing but the error notification follows, it is sent    *)
(* once with the count of the copies made so far, no completion            *)
(* notification is sent, and once the error notification is out            *)
(* send_message_batch returns False.                                       *)
(***************************************************************************)
\* both attempts on the item at index n raised FloodWait
ThrottledTwice(p, n) ==
    /\ Len(Attempts(p, n)) >= 2
    /\ Attempts(p, n)[1].res = "FloodWait"
    /\ Attempts(p, n)[2].res = "FloodWait"

\* the copies that succeeded
CopiesMade(p) ==
    SelectSeq(ev[p], LAMBDA e : e.op = "copy" /\ e.res = "ok")

C14_SecondThrottleAborts ==
    \A n \in 1..Len(messages[1]) :
        ThrottledTwice(1, n) =>
            /\ Len(Attempts(1, n)) = 2
            /\ \A m \in (n + 1)..Len(messages[1]) : Attempts(1, m) = <<>>
            /\ EventsOf(1, "send_message:completed") = <<>>
            /\ success[1] # "True"
            /\ pc[1] \in {"error_notification", "returned", "raised"}
            /\ LET last == ev[1][Len(ev[1])]
                   sent == EventsOf(1, "send_message:error")
               IN  IF pc[1] = "error_notification"
                   THEN last.op = "copy" /\ sent = <<>>
                   ELSE /\ last.op = "send_message:error"
                        /\ Len(sent) = 1
                        /\ sent[1].arg = Len(CopiesMade(1))
                        /\ last.res = "ok" <=>
                              (pc[1] = "returned" /\ success[1] = "False")

\* the second of three items is throttled twice after the first was copied:
\* the error notification says 1 and the third item is never attempted
C14_Witness ==
    /\ pc[1] = "returned"
    /\ Len(messages[1]) = 3
    /\ ThrottledTwice(1, 2)
    /\ Attempts(1, 3) = <<>>
    /\ success[1] = "False"
    /\ EventsOf(1, "send_message:error")[1].arg = 1

(***************************************************************************)
(* C15: in one attempt of fetch_messages_range no page is requested after  *)
(* an empty page or a page holding an id <= low; every further request has *)
(* for offset the oldest id of the page before it; so at most one          *)
(* requested page holds a message below low.                               *)
(***************************************************************************)
HistoryCalls(p) == SelectSeq(ev[p], IsHistoryCall)

\* the page the client returned to the request at this offset
PageOf(offset) == get_chat_history(history, PageLimit, offset)

EndsWalk(page, lo) == page = <<>> \/ \E n \in 1..Len(page) : page[n] <= lo

HoldsBelow(page, lo) == \E n \in 1..Len(page) : page[n] < lo

C15_PageRequests ==
    LET hc == HistoryCalls(1)
        answered == {n \in 1..Len(hc) : hc[n].res = "ok"}
    IN  /\ \A n \in answered :
              LET page == PageOf(hc[n].arg)
              IN  IF EndsWalk(page, Lo(1))
                  THEN n = Len(hc) /\ pc[1] = "returned"
                  ELSE IF n < Len(hc)
                       THEN hc[n + 1].arg = page[Len(page)]
                       ELSE /\ pc[1] = "get_chat_history"
                            /\ current_offset_id[1] = page[Len(page)]
        /\ Cardinality({n \in answered :
                           HoldsBelow(PageOf(hc[n].arg), Lo(1))}) <= 1

\* two pages are requested in one attempt, the second one reaches low and
\* is the last
C15_Witness ==
    /\ pc[1] = "returned"
    /\ ~Throttled(1)
    /\ Len(HistoryCalls(1)) = 2
    /\ PageOf(HistoryCalls(1)[1].arg) # <<>>
    /\ \E n \in 1..Len(PageOf(HistoryCalls(1)[2].arg)) :
          PageOf(HistoryCalls(1)[2].arg)[n] = Lo(1)

(***************************************************************************)
(* C16: fetch_messages_range comes to an end.  Within one attempt every    *)
(* page request that is followed by another lowers the offset, so the walk *)
(* over the finite history stops; and as the client raises FloodWait only  *)
(* finitely often, the restarts stop as well and the call returns (or      *)
(* raises the ValueError of its argument check).                           *)
(***************************************************************************)
\* a page was received and the same attempt goes on to the next request
NextPageOfAttempt ==
    /\ pc[1] = "get_chat_history"
    /\ pc'[1] = "get_chat_history"
    /\ faults' = faults

OffsetDecreases ==
    NextPageOfAttempt =>
        /\ current_offset_id'[1] < current_offset_id[1]
        /\ current_offset_id'[1] \in history

FetchEnded == pc[1] \in {"returned", "raised"}

C16_FetchReturns ==
    /\ [][OffsetDecreases]_vars
    /\ <>FetchEnded
    /\ [](FetchEnded /\ raised[1] = "" => pc[1] = "returned")

\* a call that was throttled twice, each time after a page, and returned
\* after a walk of two pages
C16_Witness ==
    /\ pc[1] = "returned"
    /\ Len(SelectSeq(ev[1], LAMBDA e : e.res = "FloodWait")) = MaxFaults
    /\ Len(HistoryCalls(1)) >= MaxFaults + 3
    /\ fetched[1] # <<>>

(***************************************************************************)
(* C17: whatever the history, the page size and the FloodWaits, the list   *)
(* fetch_messages_range returns is strictly ascending by id, so holds no   *)
(* message twice, and holds only ids of the history with low <= id <= high.*)
(***************************************************************************)
C17_ReturnedSequence ==
    pc[1] = "returned" =>
        /\ StrictlyAscending(fetched[1])
        /\ \A n \in 1..Len(fetched[1]) :
              /\ fetched[1][n] \in history
              /\ Lo(1) <= fetched[1][n]
              /\ fetched[1][n] <= Hi(1)

\* a FloodWait follows a retained page, and the walk of two pages that
\* starts again returns three messages
C17_Witness ==
    /\ pc[1] = "returned"
    /\ Len(fetched[1]) = 3
    /\ \E n \in 1..(Len(ev[1]) - 2) :
          /\ ev[1][n].op = "get_chat_history" /\ ev[1][n].res = "ok"
          /\ ev[1][n + 1].op = "sleep(1)"
          /\ ev[1][n + 2].res = "FloodWait"

(***************************************************************************)
(* C18: between the last transfer attempt of an item and the first         *)
(* attempt of the next item of the same chunk the delay between items,     *)
(* sleep(0.5), occurs, however the earlier item ended.  The sleep is in    *)
(* the try block after the first message.copy only.                        *)
(***************************************************************************)
\* the item at index n is not the first of its chunk
FollowsInChunk(n) == (n - 1) % batch_size # 0

C18_DelayBetweenItems ==
    \A n \in 1..Len(ev[1]) :
        (ev[1][n].op = "copy" /\ FirstAttempt(1, n)
                              /\ FollowsInChunk(ev[1][n].arg))
            => \E m \in 1..(n - 1) :
                  /\ ev[1][m].op = "sleep(0.5)"
                  /\ \A j \in m..(n - 1) : ev[1][j].op # "copy"

(***************************************************************************)
(* C19: in a run of send_message_batch every input message reaches the     *)
(* destination at most once, as a copy or as a text-only substitute and    *)
(* never as both, is given to message.copy at most twice, the second time  *)
(* only after a FloodWait, and is never sent again once it was delivered.  *)
(***************************************************************************)
\* the calls that transfer the item at index n, whole or as text
TransfersOf(p, n) ==
    SelectSeq(ev[p], LAMBDA e : e.op \in {"copy", "send_message:text"}
                                /\ e.arg = n)

C19_AtMostOnce ==
    \A n \in 1..Len(messages[1]) :
        LET transfers == TransfersOf(1, n)
            gone == {m \in 1..Len(transfers) : transfers[m].res = "ok"}
        IN  /\ Cardinality(gone) <= 1
            /\ \A m \in gone : m = Len(transfers)
            /\ Len(Attempts(1, n)) <= 2
            /\ Len(Attempts(1, n)) = 2 => Attempts(1, n)[1].res = "FloodWait"
            /\ Cardinality({d \in 1..Len(delivered) :
                               delivered[d].id = messages[1][n]})
                  = Cardinality(gone)

\* of three messages one is copied on the retry after a FloodWait, one is
\* sent as text after a failed copy and one is copied at once
C19_Witness ==
    /\ pc[1] = "returned"
    /\ Len(delivered) = 3
    /\ \E a, b \in 1..3 :
          /\ Attempts(1, a)[1].res = "FloodWait"
          /\ Attempts(1, a)[2].res = "ok"
          /\ delivered[b].kind = "text"

(***************************************************************************)
(* C20: at every point of send_message_batch sent_count is the number of   *)
(* input messages whose message.copy has succeeded so far, with            *)
(* 0 <= sent_count <= items started <= total; the completion and the error *)
(* notification show this counter; and a run that sends the completion     *)
(* notification returns True, also when sent_count is below the total.     *)
(***************************************************************************)
\* the items message.copy was called on
Started(p) == {n \in 1..Len(messages[p]) : Attempts(p, n) # <<>>}

\* the copies that had succeeded before the event at position n
CopiesBefore(p, n) ==
    Cardinality({m \in 1..(n - 1) :
                    ev[p][m].op = "copy" /\ ev[p][m].res = "ok"})

SummarySent(p) ==
    \E n \in 1..Len(ev[p]) :
        ev[p][n].op = "send_message:completed" /\ ev[p][n].res = "ok"

C20_DeliveredCounter ==
    /\ sent_count[1] = Len(CopiesMade(1))
    /\ sent_count[1] =
          Cardinality({n \in 1..Len(messages[1]) :
                          \E d \in 1..Len(delivered) :
                              /\ delivered[d].id = messages[1][n]
                              /\ delivered[d].kind = "copy"})
    /\ 0 <= sent_count[1]
    /\ sent_count[1] <= Cardinality(Started(1))
    /\ Cardinality(Started(1)) <= Len(messages[1])
    /\ \A n \in 1..Len(ev[1]) :
          ev[1][n].op \in {"send_message:completed", "send_message:error"}
              => ev[1][n].arg = CopiesBefore(1, n)
    /\ SummarySent(1) <=> success[1] = "True"
    /\ SummarySent(1) => pc[1] = "returned"

\* the completion notification says 1 of 3 and True is returned: one item
\* went as text and one was dropped
C20_Witness ==
    /\ pc[1] = "returned"
    /\ success[1] = "True"
    /\ Len(messages[1]) = 3
    /\ sent_count[1] = 1
    /\ Len(delivered) = 2
    /\ EventsOf(1, "send_message:completed")[1].arg = 1
=============================================================================
